---- MODULE Spec2Model ----
(***************************************************************************)
(* Temporal multi-agent execution engine of bbrl_examples: the Workspace,  *)
(* the composite and temporal agents, the AutoReset / NoAutoReset          *)
(* environment drivers, the stochastic actors and the A2C / PPO / FQI      *)
(* training loops that drive them.                                         *)
(*                                                                         *)
(* Three specifications share the state:                                   *)
(*   SpecWS    arbitrary set / copy_n_last_steps calls on one Workspace    *)
(*   Spec      the training loop (run_a2c, run_ppo, run_fqi)               *)
(*   SpecEval  the evaluation rollout (stop_variable = "env/done")         *)
(***************************************************************************)
EXTENDS Integers, Sequences, FiniteSets, TLC

\* ------------------------------------------------------------------ bounds
NSteps == 3           \* cfg.algorithm.n_steps: time steps per training rollout
MaxEpochs == 2        \* cfg.algorithm.max_epochs: training iterations
MaxEpisodeSteps == 3  \* time limit of one episode (gym TimeLimit)
MaxT == 3             \* SpecWS: largest time size of the Workspace
GaeT == 2             \* SpecGAE: number of transitions T of a series
DetSteps == 10        \* SpecDet: n_steps of the two rollouts that are compared

\* cfg.algorithm.n_envs: the two parallel environments of the scenario
n_envs == 2

\* cfg.algorithm.seed: the base seed
seed == 0

Slots == 0..(n_envs - 1)
Actions == {0, 1}
WSValues == {0, 1}

VARIABLES
    algo,            \* "a2c" | "ppo" | "fqi": which training loop runs
    actor_type,      \* class of action_agent (cfg.algorithm.actor_type)
    epoch,           \* loop variable of the training loop
    pc,              \* position in the running loop
    t,               \* time index of the running TemporalAgent
    idx,             \* position in the composite agent's list at time t
    run,             \* arguments of the running TemporalAgent call
    calls,           \* agent calls made by the running TemporalAgent call
    ws,              \* the Workspace (train_workspace / eval_workspace)
    env,             \* per-slot state of the environment driver
    ref,             \* per-slot state of an uninterrupted reference driver
    refAct,          \* action the actor wrote at the latest logical step
    g,               \* number of driver forward calls made so far
    tw,              \* transition_workspace
    must_bootstrap,  \* the mask computed from transition_workspace
    version,         \* parameter version of the current policy / critic
    err,             \* "none", or the error that aborted the run
    pre,             \* the Workspace before the latest Workspace operation
    lastOp,          \* the latest Workspace operation
    theta,           \* the policy network, as far as it has been evaluated
    written,         \* the (channel, time, agent) writes of the iteration
    hp,              \* hyper-parameters of the advantage estimator
    adv,             \* the advantages the estimator returned
    ws1,             \* the Workspace of an earlier rollout, kept to compare
    vf               \* PPO: v_value, old_v_value and the clipped v_value

vars == <<algo, actor_type, epoch, pc, t, idx, run, calls, ws, env, ref,
          refAct, g, tw, must_bootstrap, version, err, pre, lastOp,
          theta, written, hp, adv, ws1, vf>>

\* ---------------------------------------------------------------- Workspace
Channels == {"env/env_obs", "env/reward", "env/done", "env/truncated",
             "env/cumulated_reward", "action", "action_logprobs", "entropy",
             "v_value", "q_values", "logprob_predict", "action_probs"}

Max(S) == CHOOSE x \in S : \A y \in S : y <= x

\* A Workspace maps each channel to the sequence of its values at times
\* 0, 1, ...; time t is position t + 1.  A channel never written is <<>>.
EmptyWorkspace == [c \in Channels |-> <<>>]

NoOp == [op |-> "none"]

WHas(w, c, tt) == tt >= 0 /\ tt < Len(w[c])

WGet(w, c, tt) == w[c][tt + 1]

WCanSet(w, c, tt) == tt >= 0 /\ tt <= Len(w[c])

\* (mutant) an overwrite lands one time step too early
WSet_OffByOne(w, c, tt, v) ==
    [w EXCEPT ![c] = IF tt = Len(@) THEN Append(@, v)
                     ELSE IF tt = 0 THEN @ ELSE [@ EXCEPT ![tt] = v]]

WSet(w, c, tt, v) ==
    [w EXCEPT ![c] = IF tt = Len(@) THEN Append(@, v) ELSE [@ EXCEPT ![tt + 1] = v]]

TimeSize(w) == Max({Len(w[c]) : c \in Channels})

\* (mutant) keeps the first n steps instead of the last n
WCopyNLast_First(w, n) ==
    [c \in Channels |-> SubSeq(w[c], 1, IF Len(w[c]) < n THEN Len(w[c]) ELSE n)]

WCopyNLast(w, n) ==
    [c \in Channels |-> SubSeq(w[c], TimeSize(w) - n + 1, Len(w[c]))]

\* ------------------------------------------------------ environment drivers
None == -1

\* per-slot driver state before the first reset; sd is the seed of the
\* slot's environment
InitSlot(sd) ==
    [seed |-> sd, k |-> 0, done |-> FALSE, trunc |-> FALSE, cum |-> 0, rew |-> 0]

\* the environment of slot s is seeded with the driver's seed plus s
SeedSlots(sd) == [s \in Slots |-> InitSlot(sd + s)]

\* reset of one slot: a fresh episode, no reward yet, cumulated reward 0
ResetSlot(st) ==
    [seed |-> st.seed, k |-> 0, done |-> FALSE, trunc |-> FALSE, cum |-> 0,
     rew |-> 0]

Reward(a) == IF a = 1 THEN 5 ELSE 1

\* one step of the gym environment of a slot: action 1 ends the episode in a
\* terminal state, action 0 continues it until the time limit truncates it;
\* done is true in both cases, truncated only at the time limit.
GymStep(st, a) ==
    LET terminal == (a = 1)
        truncd   == ~terminal /\ st.k + 1 >= MaxEpisodeSteps
    IN  [seed |-> st.seed, k |-> st.k + 1,
         done |-> terminal \/ truncd, trunc |-> truncd,
         cum |-> st.cum + Reward(a), rew |-> Reward(a)]

\* AutoReset driver: a slot whose episode ended is reset at the next step
AutoResetForward(e, tt, act) ==
    [s \in Slots |->
        IF tt = 0 \/ e[s].done THEN ResetSlot(e[s]) ELSE GymStep(e[s], act[s])]

\* NoAutoReset driver: a slot whose episode ended holds its last observation
\* and flags, with reward 0
NoAutoResetForward(e, tt, act) ==
    [s \in Slots |->
        IF tt = 0 THEN ResetSlot(e[s])
        ELSE IF e[s].done THEN [e[s] EXCEPT !.rew = 0]
        ELSE GymStep(e[s], act[s])]

DriverForward(kind, e, tt, act) ==
    IF kind = "AutoReset" THEN AutoResetForward(e, tt, act)
    ELSE NoAutoResetForward(e, tt, act)

\* the observation of a slot: the seed of its environment and the number
\* of steps taken in the episode; step 0 is the observation a reset returns
Obs(e) == [s \in Slots |-> <<e[s].seed, e[s].k>>]

\* what a driver writes at one time step
DriverOutput(e) ==
    ("env/env_obs" :> Obs(e)) @@
    ("env/reward" :> [s \in Slots |-> e[s].rew]) @@
    ("env/done" :> [s \in Slots |-> e[s].done]) @@
    ("env/truncated" :> [s \in Slots |-> e[s].trunc]) @@
    ("env/cumulated_reward" :> [s \in Slots |-> e[s].cum])

\* ------------------------------------------------------------------ agents
CanWrite(w, tt, upd) == \A c \in DOMAIN upd : WCanSet(w, c, tt)

Write(w, tt, upd) ==
    [c \in Channels |-> IF c \in DOMAIN upd THEN WSet(w, c, tt, upd[c])[c] ELSE w[c]]

\* the result of (a part of) a forward call: the Workspace it leaves, the
\* error it raised if any, and the channels it wrote
Ok(w) == [ws |-> w, err |-> "none", wrote |-> {}]
Fail(w, c) == [ws |-> w, err |-> c, wrote |-> {}]

\* a forward call that writes upd at tt
Writes(w, tt, upd) ==
    IF CanWrite(w, tt, upd)
    THEN [ws |-> Write(w, tt, upd), err |-> "none", wrote |-> DOMAIN upd]
    ELSE Fail(w, "gap")

\* the part r2 of a forward call, run after the part r1 of the same call
After(r1, r2) == [r2 EXCEPT !.wrote = r1.wrote \cup r2.wrote]

ActorTypes == {"TunableVarianceContinuousActor", "SquashedGaussianActor",
               "StateDependentVarianceContinuousActor",
               "ConstantVarianceContinuousActor", "DiscreteActor", "BernoulliActor"}

\* A probability is a number of quarters, P(action = 1) = p / 4; NaN is the
\* result of a computation of the network that failed.
NaN == -1
ProbValues == {1, 2, 3}

\* what a computation on a NaN yields
NaNValue == <<"nan">>

IsNaN(p) == \E s \in Slots : p[s] = NaN

\* dist.entropy() and dist.log_prob(action) of the policy of parameter
\* version ver at the observations obs, where the network computed p
Entropy(ver, obs, p) ==
    [s \in Slots |-> IF p[s] = NaN THEN NaNValue ELSE <<"H", ver, obs[s]>>]
LogProb(ver, obs, a, p) ==
    [s \in Slots |-> IF p[s] = NaN THEN NaNValue ELSE <<"logp", ver, obs[s], a[s]>>]

\* whether the actor class writes the entropy channel in this call
WritesEntropy(type, opts) ==
    CASE type \in {"BernoulliActor", "ConstantVarianceContinuousActor"} -> TRUE
      [] type = "SquashedGaussianActor" -> FALSE
      [] OTHER -> opts.compute_entropy

\* whether the actor class re-scores the stored action in this call
Predicts(type, opts) ==
    IF type = "BernoulliActor" THEN FALSE ELSE opts.predict_proba

\* whether the actor class builds its distribution before anything else
\* (DiscreteActor builds a Categorical only where it needs one)
DistFirst(type) == type # "DiscreteActor"

\* the most probable action: argmax returns the first index among equals
Mode(p) == IF p > 2 THEN 1 ELSE 0

\* (mutant) every class selects the most probable action
Greedy_Mode(type, p, a) == IF p = NaN THEN a ELSE Mode(p)

\* the action a class writes when stochastic is false and the network
\* computed p: BernoulliActor writes mean.lt(0.5), DiscreteActor
\* scores.argmax(1), the Gaussian actors the mean or the mode; a is what
\* comes out of a NaN
Greedy(type, p, a) ==
    IF p = NaN THEN a
    ELSE IF type = "BernoulliActor" THEN (IF p < 2 THEN 1 ELSE 0)
    ELSE Mode(p)

\* forward of the policy of class type and parameter version ver at time tt.
\* d is what the call takes from outside the Workspace: d.p the probabilities
\* the network computes from the observation, d.a the action a sampler
\* returns, d.checks whether torch checks the parameters of the distributions
\* and samplers it is handed.  The entropy is written before the stored
\* action is read.
ActorForwardAt(type, ver, w, tt, opts, d) ==
    IF ~WHas(w, "env/env_obs", tt) THEN Fail(w, "missing env/env_obs")
    ELSE
    LET obs == WGet(w, "env/env_obs", tt)
        bad == IsNaN(d.p) /\ d.checks
        e   == IF ~WritesEntropy(type, opts) THEN Ok(w)
               ELSE IF bad /\ ~DistFirst(type) THEN Fail(w, "invalid distribution")
               ELSE Writes(w, tt, "entropy" :> Entropy(ver, obs, d.p))
        act == [s \in Slots |->
                   IF opts.stochastic THEN d.a[s] ELSE Greedy(type, d.p[s], d.a[s])]
    IN  IF bad /\ DistFirst(type) THEN Fail(w, "invalid distribution")
        ELSE IF e.err # "none" THEN e
        ELSE IF Predicts(type, opts)
        THEN IF ~WHas(e.ws, "action", tt)
             THEN After(e, Fail(e.ws, "missing action"))
             ELSE After(e, Writes(e.ws, tt, "logprob_predict" :>
                        LogProb(ver, obs, WGet(e.ws, "action", tt), d.p)))
        ELSE IF bad /\ opts.stochastic
        THEN After(e, Fail(e.ws, "invalid distribution"))
        ELSE After(e, Writes(e.ws, tt, ("action" :> act) @@
                        ("action_logprobs" :> LogProb(ver, obs, act, d.p))))

\* ProbAgent: writes action_probs and the entropy at tt, unless a probability
\* is NaN ("Nan Here")
ProbAgentForwardAt(ver, w, tt, d) ==
    IF ~WHas(w, "env/env_obs", tt) THEN Fail(w, "missing env/env_obs")
    ELSE IF IsNaN(d.p) THEN Fail(w, "Nan Here")
    ELSE LET e == Writes(w, tt, "action_probs" :> d.p)
         IN  IF e.err # "none" THEN e
             ELSE After(e, Writes(e.ws, tt, "entropy" :>
                        Entropy(ver, WGet(w, "env/env_obs", tt), d.p)))

\* VAgent: the critic reads the observation at tt and writes v_value at tt
VForwardAt(ver, w, tt) ==
    IF ~WHas(w, "env/env_obs", tt) THEN Fail(w, "missing env/env_obs")
    ELSE Writes(w, tt, "v_value" :>
            [s \in Slots |-> <<"V", ver, WGet(w, "env/env_obs", tt)[s]>>])

\* DiscreteQAgent: writes q_values at tt, and the greedy action when asked
QForwardAt(ver, w, tt, opts, a) ==
    IF ~WHas(w, "env/env_obs", tt) THEN Fail(w, "missing env/env_obs")
    ELSE LET q == "q_values" :>
                    [s \in Slots |-> <<"Q", ver, WGet(w, "env/env_obs", tt)[s]>>]
         IN  Writes(w, tt, IF opts.choose_action THEN q @@ ("action" :> a) ELSE q)

\* EGreedyActionSelector: reads q_values at tt and writes the action at tt
ExplorerForwardAt(w, tt, a) ==
    IF ~WHas(w, "q_values", tt) THEN Fail(w, "missing q_values")
    ELSE Writes(w, tt, "action" :> a)

\* the actions a forward call may write: any action per slot when it writes
\* one (sampled when stochastic; the argmax of an unconstrained network
\* otherwise), none to choose when it writes no action
ActionChoices(writes) ==
    IF writes THEN [Slots -> Actions] ELSE {[s \in Slots |-> 0]}

NoSample == [s \in Slots |-> 0]

\* the network before it has been evaluated anywhere
Unevaluated == [o \in {} |-> 2]

\* finite probabilities, for a call whose writes do not depend on them
SomeProbs == [s \in Slots |-> 2]

\* The network of the policy is a function of the observation that the model
\* does not know: th holds its value at the observations it has been
\* evaluated at, and its value at a new observation is any probability.
Agrees(th, obs, p) ==
    /\ \A s \in Slots : obs[s] \in DOMAIN th => th[obs[s]] = p[s]
    /\ \A s1, s2 \in Slots : obs[s1] = obs[s2] => p[s1] = p[s2]

Learn(th, obs, p) ==
    [o \in DOMAIN th \cup {obs[s] : s \in Slots} |->
        IF o \in DOMAIN th THEN th[o] ELSE p[CHOOSE s \in Slots : obs[s] = o]]

\* the probabilities an evaluation of the network yields in a rollout: one
\* that favours action 0 and one that favours action 1
RolloutProbs == {1, 3}

\* the call selects the action from the probabilities alone
SelectsGreedily(type, opts, w, tt) ==
    ~Predicts(type, opts) /\ ~opts.stochastic /\ WHas(w, "env/env_obs", tt)

\* what a forward call of a rollout may take from outside the Workspace: a
\* sample when it samples (every action has a positive probability), the
\* network's probabilities when it selects greedily
RolloutDraws(type, opts, th, w, tt) ==
    IF SelectsGreedily(type, opts, w, tt)
    THEN {[a |-> NoSample, p |-> p, checks |-> TRUE] :
             p \in {q \in [Slots -> RolloutProbs] :
                        Agrees(th, WGet(w, "env/env_obs", tt), q)}}
    ELSE {[a |-> a, p |-> SomeProbs, checks |-> TRUE] :
             a \in ActionChoices(~Predicts(type, opts))}

\* driver forward at tt: reads the action at tt - 1 unless tt = 0
EnvReadsOk(w, tt) == tt = 0 \/ WHas(w, "action", tt - 1)

EnvAction(w, tt) ==
    IF tt > 0 /\ WHas(w, "action", tt - 1) THEN WGet(w, "action", tt - 1)
    ELSE [s \in Slots |-> 0]

\* ------------------------------------------------------ advantage estimator
\* The discount factor and the trace-decay factor are numbers of quarters;
\* an advantage is a number of Unit-ths, so that every value is an integer.
Quarter == 4

RECURSIVE Pow(_, _)
Pow(b, n) == IF n = 0 THEN 1 ELSE b * Pow(b, n - 1)

\* Quarter times the one-step residual r_t + gamma V_{t+1} mb_t - V_t of a
\* series v = V_0..V_T, r = r_0..r_{T-1}, mb = mb_0..mb_{T-1}
Delta(v, r, mb, gamma, tt) ==
    Quarter * r[tt + 1] + (IF mb[tt + 1] THEN gamma * v[tt + 2] ELSE 0)
        - Quarter * v[tt + 1]

RECURSIVE GaeAt(_, _, _, _, _, _)
\* Pow(Quarter, 2 T - 1) times A_t = delta_t + gamma lambda mb_t A_{t+1}
GaeAt(v, r, mb, gamma, lam, tt) ==
    Delta(v, r, mb, gamma, tt) * Pow(Quarter, 2 * Len(r) - 2)
    + (IF tt + 1 < Len(r) /\ mb[tt + 1]
       THEN (gamma * lam * GaeAt(v, r, mb, gamma, lam, tt + 1)) \div (Quarter * Quarter)
       ELSE 0)

\* gae(critic, reward, must_bootstrap, discount_factor, gae_coef): the
\* advantages A_0..A_{T-1} of one slot's series
gae(v, r, mb, gamma, lam) ==
    [i \in 1..Len(r) |-> GaeAt(v, r, mb, gamma, lam, i - 1)]

RECURSIVE SumSquares(_, _)
SumSquares(a, n) == IF n = 0 THEN 0 ELSE a[n] * a[n] + SumSquares(a, n - 1)

\* (mutant) the two coefficients are handed over in the wrong order
compute_advantages_loss_Swapped(cfg, reward, mb, v_value) ==
    LET advantages == gae(v_value, reward, mb, cfg.gae, cfg.discount_factor)
    IN  [critic_loss |-> SumSquares(advantages, Len(advantages)),
         advantages |-> advantages]

\* (mutant) the mask is not handed over: every step bootstraps
compute_advantages_loss_NoMask(cfg, reward, mb, v_value) ==
    LET advantages == gae(v_value, reward, [i \in DOMAIN mb |-> TRUE],
                          cfg.discount_factor, cfg.gae)
    IN  [critic_loss |-> SumSquares(advantages, Len(advantages)),
         advantages |-> advantages]

\* compute_advantages_loss (A2C) / compute_advantage_loss (PPO): the
\* advantages, and the sum of their squares the critic loss is the mean of
compute_advantages_loss(cfg, reward, mb, v_value) ==
    LET advantages == gae(v_value, reward, mb, cfg.discount_factor, cfg.gae)
    IN  [critic_loss |-> SumSquares(advantages, Len(advantages)),
         advantages |-> advantages]

\* ---------------------------------------------------------- configuration
Options(st, pp, ce, ca) ==
    [stochastic |-> st, predict_proba |-> pp, compute_entropy |-> ce,
     choose_action |-> ca]

\* (mutant) the training driver does not reset ended episodes
train_env_agent_NoAutoReset == "NoAutoReset"
\* train_env_agent = AutoResetGymAgent(...)
train_env_agent == "AutoReset"

\* (mutant) the evaluation driver resets ended episodes
eval_env_agent_AutoReset == "AutoReset"
\* eval_env_agent = NoAutoResetGymAgent(...)
eval_env_agent == "NoAutoReset"

DriverKind(agent) == IF agent = "train_env" THEN train_env_agent ELSE eval_env_agent

\* the agent lists of the composite agents, in list order
\* (mutant) the policy is listed before the environment driver
tr_agent_ActorFirst(al) == <<"actor", "train_env">>
tr_agent(al) ==
    IF al = "fqi" THEN <<"train_env", "q_agent", "explorer">>
    ELSE <<"train_env", "actor">>

ev_agent(al) ==
    IF al = "fqi" THEN <<"eval_env", "q_agent">> ELSE <<"eval_env", "actor">>

\* the agent list a TemporalAgent wraps
AgentsOf(name, al) ==
    CASE name = "train_agent" -> tr_agent(al)
      [] name = "eval_agent" -> ev_agent(al)
      [] name = "old_train_agent" -> <<"old_policy">>
      [] name = "critic_agent" -> <<"critic">>
      [] name = "old_critic_agent" -> <<"old_critic">>

\* arguments of the rollout call of the training loop at an epoch
\* (mutant) every epoch runs in seed mode: t = 0, n_steps
RolloutArgs_Reseed(al, ep) ==
    [agent |-> "train_agent", t0 |-> 0, n_steps |-> NSteps, stop |-> "none",
     opts |-> Options(TRUE, FALSE, al # "fqi", FALSE)]
\* (mutant) the continuation runs n_steps steps instead of n_steps - 1
RolloutArgs_FullContinuation(al, ep) ==
    [agent |-> "train_agent", t0 |-> IF ep > 0 THEN 1 ELSE 0, n_steps |-> NSteps,
     stop |-> "none", opts |-> Options(TRUE, FALSE, al # "fqi", FALSE)]
RolloutArgs(al, ep) ==
    [agent |-> "train_agent",
     t0 |-> IF ep > 0 THEN 1 ELSE 0,
     n_steps |-> IF ep > 0 THEN NSteps - 1 ELSE NSteps,
     stop |-> "none",
     opts |-> Options(TRUE, FALSE, al # "fqi", FALSE)]

\* arguments of the old policy's re-scoring call (PPO)
OldRolloutArgs(ep) ==
    [agent |-> "old_train_agent",
     t0 |-> IF ep > 0 THEN 1 ELSE 0,
     n_steps |-> IF ep > 0 THEN NSteps - 1 ELSE NSteps,
     stop |-> "none",
     opts |-> Options(TRUE, TRUE, TRUE, FALSE)]

\* arguments of the critic calls: no t (from 0), n_steps, no option
CriticArgs(name) ==
    [agent |-> name, t0 |-> 0, n_steps |-> NSteps, stop |-> "none",
     opts |-> Options(FALSE, FALSE, FALSE, FALSE)]

\* (mutant) the rollout waits for the time limit of every slot
eval_stop_variable_Truncated == "env/truncated"
eval_stop_variable == "env/done"

\* arguments of the evaluation call
EvalArgs(al) ==
    [agent |-> "eval_agent", t0 |-> 0, n_steps |-> None,
     stop |-> eval_stop_variable,
     opts |-> Options(al = "ppo", FALSE, FALSE, al = "fqi")]

OldVersion(ver) == IF ver = 0 THEN 0 ELSE ver - 1

\* ----------------------------------------------------------- TemporalAgent
CurAgent == AgentsOf(run.agent, algo)[idx]

AllTrue(v) == \A s \in Slots : v[s]

\* the stop condition of the running call holds at time tt
TA_Stop(r, w, tt) ==
    r.stop # "none" /\ WHas(w, r.stop, tt) /\ AllTrue(WGet(w, r.stop, tt))

\* tt is the last of the n_steps time steps of the running call
TA_Last(r, tt) == r.n_steps # None /\ tt + 1 >= r.t0 + r.n_steps

\* (mutant) the time index is not advanced between two calls
TA_NextT_Stuck(tt) == tt
TA_NextT(tt) == tt + 1

\* the options handed to the wrapped agent at time tt
TA_Options(r, tt) == r.opts

\* start of a TemporalAgent call with arguments r
Begin(r) ==
    /\ run' = r
    /\ t' = r.t0
    /\ idx' = 1
    /\ calls' = <<>>
    /\ pc' = IF r.n_steps = 0 THEN "returned" ELSE "running"
    /\ written' = IF r.agent \in {"train_agent", "eval_agent"} THEN {} ELSE written

\* the wrapped agent list's idx-th agent has run at t with result res
Step(res) ==
    /\ calls' = Append(calls, [agent |-> CurAgent, t |-> t, opts |-> TA_Options(run, t)])
    /\ ws' = res.ws
    /\ err' = res.err
    /\ run' = run
    /\ written' = written \cup {<<c, t, CurAgent>> : c \in res.wrote}
    /\ IF res.err # "none"
       THEN pc' = "aborted" /\ t' = t /\ idx' = idx
       ELSE IF idx < Len(AgentsOf(run.agent, algo))
       THEN pc' = pc /\ t' = t /\ idx' = idx + 1
       ELSE IF TA_Stop(run, res.ws, t) \/ TA_Last(run, t)
       THEN pc' = "returned" /\ t' = t /\ idx' = idx
       ELSE pc' = pc /\ t' = TA_NextT(t) /\ idx' = 1

\* a call with n_steps ends by itself; one with a stop variable is followed
\* as far as an episode can last
Running ==
    /\ pc = "running"
    /\ run.n_steps = None => t <= NSteps + MaxEpisodeSteps

UnchangedWS == UNCHANGED <<pre, lastOp, hp, adv, ws1, vf>>

\* ------------------------------------------------------------ agent calls
\* the environment driver's forward at t
EnvForward ==
    /\ Running
    /\ CurAgent \in {"train_env", "eval_env"}
    /\ LET e2 == DriverForward(DriverKind(CurAgent), env, t, EnvAction(ws, t))
       IN  IF EnvReadsOk(ws, t)
           THEN /\ env' = e2
                /\ ref' = DriverForward(DriverKind(CurAgent), ref, g, refAct)
                /\ g' = g + 1
                /\ Step(Writes(ws, t, DriverOutput(e2)))
           ELSE /\ UNCHANGED <<env, ref, g>>
                /\ Step(Fail(ws, "missing action"))
    /\ UNCHANGED <<algo, actor_type, epoch, refAct, tw, must_bootstrap, version,
                   theta>>
    /\ UnchangedWS

\* the current policy's forward at t
ActorForward ==
    /\ Running
    /\ CurAgent = "actor"
    /\ \E d \in RolloutDraws(actor_type, TA_Options(run, t), theta, ws, t) :
          LET opts == TA_Options(run, t)
              res  == ActorForwardAt(actor_type, version, ws, t, opts, d)
          IN  /\ Step(res)
              /\ refAct' = IF res.err = "none" /\ ~Predicts(actor_type, opts)
                           THEN WGet(res.ws, "action", t) ELSE refAct
              /\ theta' = IF SelectsGreedily(actor_type, opts, ws, t)
                          THEN Learn(theta, WGet(ws, "env/env_obs", t), d.p)
                          ELSE theta
    /\ UNCHANGED <<algo, actor_type, epoch, env, ref, g, tw, must_bootstrap, version>>
    /\ UnchangedWS

\* the old policy's forward at t (PPO)
OldPolicyForward ==
    /\ Running
    /\ CurAgent = "old_policy"
    /\ \E d \in RolloutDraws(actor_type, TA_Options(run, t), Unevaluated, ws, t) :
          LET opts == TA_Options(run, t)
              res  == ActorForwardAt(actor_type, OldVersion(version), ws, t, opts, d)
          IN  /\ Step(res)
              /\ refAct' = IF res.err = "none" /\ ~Predicts(actor_type, opts)
                           THEN WGet(res.ws, "action", t) ELSE refAct
    /\ UNCHANGED <<algo, actor_type, epoch, env, ref, g, tw, must_bootstrap,
                   version, theta>>
    /\ UnchangedWS

\* the critic's (or the old critic's) forward at t
CriticForward ==
    /\ Running
    /\ CurAgent \in {"critic", "old_critic"}
    /\ Step(VForwardAt(IF CurAgent = "critic" THEN version ELSE OldVersion(version),
                       ws, t))
    /\ UNCHANGED <<algo, actor_type, epoch, env, ref, refAct, g, tw,
                   must_bootstrap, version, theta>>
    /\ UnchangedWS

\* the Q critic's forward at t (FQI)
QForward ==
    /\ Running
    /\ CurAgent = "q_agent"
    /\ \E a \in ActionChoices(TA_Options(run, t).choose_action) :
          LET opts == TA_Options(run, t)
              res  == QForwardAt(version, ws, t, opts, a)
          IN  /\ Step(res)
              /\ refAct' = IF res.err = "none" /\ opts.choose_action THEN a ELSE refAct
    /\ UNCHANGED <<algo, actor_type, epoch, env, ref, g, tw, must_bootstrap,
                   version, theta>>
    /\ UnchangedWS

\* the epsilon-greedy selector's forward at t (FQI)
ExplorerForward ==
    /\ Running
    /\ CurAgent = "explorer"
    /\ \E a \in ActionChoices(TRUE) :
          LET res == ExplorerForwardAt(ws, t, a)
          IN  /\ Step(res)
              /\ refAct' = IF res.err = "none" THEN a ELSE refAct
    /\ UNCHANGED <<algo, actor_type, epoch, env, ref, g, tw, must_bootstrap,
                   version, theta>>
    /\ UnchangedWS

\* ------------------------------------------------------------ training loop
\* get_transitions: every channel as the pairs (value at tt, value at tt + 1)
\* of each slot; the last time step, which has no successor, opens no pair
Transitions(w) ==
    [c \in Channels |->
        [tr \in (0..(Len(w[c]) - 2)) \X Slots |->
            <<w[c][tr[1] + 1][tr[2]], w[c][tr[1] + 2][tr[2]]>>]]

\* (mutant) the flags of the pair's first step are read
MustBootstrap_First(done, truncated) ==
    [tr \in DOMAIN done |-> ~done[tr][1] \/ truncated[tr][1]]

\* (mutant) the negation of done is lost
MustBootstrap_NotNegated(done, truncated) ==
    [tr \in DOMAIN done |-> done[tr][2] \/ truncated[tr][2]]

\* torch.logical_or(~done[1], truncated[1]): index 1 of the pair axis is the
\* pair's second step
MustBootstrap(done, truncated) ==
    [tr \in DOMAIN done |-> ~done[tr][2] \/ truncated[tr][2]]

\* the channels a loop reads from transition_workspace
TransitionKeys(al) ==
    IF al = "fqi"
    THEN {"q_values", "env/done", "env/truncated", "env/reward", "action"}
    ELSE {"v_value", "env/done", "env/truncated", "env/reward", "action",
          "action_logprobs"}

MissingKey(w, keys) == \E c \in keys : Len(w[c]) = 0

\* the loops and the policy classes they are run with: A2C with an actor
\* that records the entropy and with one that does not, PPO, FQI
Configs ==
    {<<"a2c", "DiscreteActor">>, <<"a2c", "SquashedGaussianActor">>,
     <<"ppo", "TunableVarianceContinuousActor">>,
     <<"fqi", "EGreedyActionSelector">>}

\* (mutant) the driver is seeded from something that differs at every start
train_seed_Unseeded(start) == seed + start
\* train_agent.seed(cfg.algorithm.seed), at the start-th start of the program
train_seed(start) == seed

\* the state before the loop, whatever the loop and the policy class
InitBase ==
    /\ epoch = 0
    /\ t = 0 /\ idx = 0 /\ run = [agent |-> "none"] /\ calls = <<>>
    /\ ws = EmptyWorkspace
    /\ env = SeedSlots(train_seed(0))
    /\ ref = SeedSlots(train_seed(0))
    /\ refAct = [s \in Slots |-> 0]
    /\ g = 0
    /\ tw = <<>> /\ must_bootstrap = <<>>
    /\ version = 0
    /\ err = "none"
    /\ pre = EmptyWorkspace /\ lastOp = NoOp
    /\ theta = Unevaluated /\ written = {}
    /\ hp = <<>> /\ adv = <<>> /\ ws1 = EmptyWorkspace /\ vf = <<>>

InitLoop ==
    /\ \E cfg \in Configs : algo = cfg[1] /\ actor_type = cfg[2]
    /\ InitBase

Init == InitLoop /\ pc = "loop_top"

UnchangedEnv == UNCHANGED <<env, ref, refAct, g, theta>>

\* top of an iteration: the continuation copy (epoch > 0) and the rollout
\* call.  The previous iteration's transition_workspace and mask are never
\* read again: they are dropped here.
StartRollout ==
    /\ pc = "loop_top"
    /\ epoch < MaxEpochs
    /\ ws' = IF epoch > 0 THEN WCopyNLast(ws, 1) ELSE ws
    /\ Begin(RolloutArgs(algo, epoch))
    /\ tw' = <<>>
    /\ must_bootstrap' = <<>>
    /\ vf' = <<>>
    /\ UNCHANGED <<algo, actor_type, epoch, version, err, pre, lastOp, hp, adv, ws1>>
    /\ UnchangedEnv

\* PPO: the old policy re-scores the actions of the rollout
StartOldRollout ==
    /\ pc = "returned"
    /\ algo = "ppo" /\ run.agent = "train_agent"
    /\ Begin(OldRolloutArgs(epoch))
    /\ UNCHANGED <<algo, actor_type, epoch, ws, tw, must_bootstrap, version, err>>
    /\ UnchangedEnv /\ UnchangedWS

\* the critic over the whole workspace
StartCritic ==
    /\ pc = "returned"
    /\ \/ algo = "a2c" /\ run.agent = "train_agent"
       \/ algo = "ppo" /\ run.agent = "old_train_agent"
    /\ Begin(CriticArgs("critic_agent"))
    /\ UNCHANGED <<algo, actor_type, epoch, ws, tw, must_bootstrap, version, err>>
    /\ UnchangedEnv /\ UnchangedWS

\* get_transitions, the reads of its channels, and the must_bootstrap mask
GetTransitions ==
    /\ pc = "returned"
    /\ \/ algo = "fqi" /\ run.agent = "train_agent"
       \/ algo # "fqi" /\ run.agent = "critic_agent"
    /\ IF MissingKey(ws, TransitionKeys(algo))
       THEN /\ err' = "missing transition key" /\ pc' = "aborted"
            /\ UNCHANGED <<tw, must_bootstrap>>
       ELSE /\ tw' = Transitions(ws)
            /\ must_bootstrap' = MustBootstrap(Transitions(ws)["env/done"],
                                               Transitions(ws)["env/truncated"])
            /\ err' = err
            /\ pc' = "have_transitions"
    /\ UNCHANGED <<algo, actor_type, epoch, t, idx, run, calls, ws, version,
                   written>>
    /\ UnchangedEnv /\ UnchangedWS

\* PPO: the old critic over the whole workspace
StartOldCritic ==
    /\ pc = "have_transitions"
    /\ algo = "ppo"
    /\ Begin(CriticArgs("old_critic_agent"))
    /\ UNCHANGED <<algo, actor_type, epoch, ws, tw, must_bootstrap, version, err>>
    /\ UnchangedEnv /\ UnchangedWS

\* the number a critic's value stands for: it depends on the parameters and
\* on the observation, and an optimizer step moves it by ValueScale
ValueScale == 4
Num(v) == ValueScale * v[2] + v[3][1] + v[3][2]

\* the v_value channel of a transition workspace as numbers
Values(trw) ==
    [tr \in DOMAIN trw["v_value"] |->
        <<Num(trw["v_value"][tr][1]), Num(trw["v_value"][tr][2])>>]

\* cfg.algorithm.clip_range_vf: 0 switches the clipping off
ClipRanges == {0, 1, 2}

\* torch.clamp(x, lo, hi)
Clamp(x, lo, hi) == IF x < lo THEN lo ELSE IF x > hi THEN hi ELSE x

\* the value clipping: v_value = old_v_value + clamp(v_value - old_v_value)
ClipValues(v, old, c) ==
    IF c > 0
    THEN [tr \in DOMAIN v |->
            <<old[tr][1] + Clamp(v[tr][1] - old[tr][1], 0 - c, c),
              old[tr][2] + Clamp(v[tr][2] - old[tr][2], 0 - c, c)>>]
    ELSE v

\* (mutant) old_v_value is read from the training workspace, which the old
\* critic has written by then
old_v_value_FromTrainWorkspace(trw, w) == Values(Transitions(w))
\* old_v_value = transition_workspace["v_value"], read after the old critic
\* has run on train_workspace
old_v_value(trw, w) == Values(trw)

\* what the value loss of PPO is computed from: v_value as read from the
\* transition workspace when it was built, old_v_value, and v_value after
\* the clipping, for each clip range
ValueInputs(trw, w) ==
    LET v   == Values(trw)
        old == old_v_value(trw, w)
    IN  [v_value |-> v, old_v_value |-> old,
         clipped |-> [c \in ClipRanges |-> ClipValues(v, old, c)]]

\* the losses (which read the entropy channel in A2C and PPO, and
\* logprob_predict in PPO) and the optimizer step that ends the iteration;
\* the step changes the parameters, so the network is a new function
Update ==
    /\ \/ pc = "have_transitions" /\ algo # "ppo"
       \/ pc = "returned" /\ run.agent = "old_critic_agent"
    /\ IF algo = "ppo" /\ Len(ws["logprob_predict"]) = 0
       THEN err' = "missing logprob_predict" /\ pc' = "aborted"
            /\ UNCHANGED <<epoch, version>>
       ELSE IF algo # "fqi" /\ Len(ws["entropy"]) = 0
       THEN err' = "missing entropy" /\ pc' = "aborted"
            /\ UNCHANGED <<epoch, version>>
       ELSE /\ err' = err
            /\ version' = version + 1
            /\ epoch' = epoch + 1
            /\ pc' = "loop_top"
    /\ theta' = IF pc' = "loop_top" THEN Unevaluated ELSE theta
    /\ vf' = IF algo = "ppo" /\ pc' = "loop_top" THEN ValueInputs(tw, ws) ELSE vf
    /\ UNCHANGED <<algo, actor_type, t, idx, run, calls, ws, tw, must_bootstrap,
                   written, env, ref, refAct, g, pre, lastOp, hp, adv, ws1>>

Next ==
    \/ StartRollout
    \/ EnvForward
    \/ ActorForward
    \/ QForward
    \/ ExplorerForward
    \/ StartOldRollout
    \/ OldPolicyForward
    \/ StartCritic
    \/ CriticForward
    \/ GetTransitions
    \/ StartOldCritic
    \/ Update

Spec == Init /\ [][Next]_vars

\* ------------------------------------------------------- evaluation rollout
InitEval == InitLoop /\ pc = "eval_start"

\* eval_agent(eval_workspace, t=0, stop_variable="env/done", ...)
StartEval ==
    /\ pc = "eval_start"
    /\ Begin(EvalArgs(algo))
    /\ UNCHANGED <<algo, actor_type, epoch, ws, tw, must_bootstrap, version, err>>
    /\ UnchangedEnv /\ UnchangedWS

\* rewards = eval_workspace["env/cumulated_reward"][-1]
ReadRewards ==
    /\ pc = "returned"
    /\ pc' = "eval_done"
    /\ UNCHANGED <<algo, actor_type, epoch, t, idx, run, calls, ws, tw,
                   must_bootstrap, version, err, written>>
    /\ UnchangedEnv /\ UnchangedWS

NextEval ==
    \/ StartEval
    \/ EnvForward
    \/ ActorForward
    \/ QForward
    \/ ReadRewards

SpecEval == InitEval /\ [][NextEval]_vars

\* the evaluation rollout under the fairness of a single thread of control
\* that runs until it returns
FairSpecEval == SpecEval /\ WF_vars(NextEval)

\* ------------------------------------------------------------------ claims
EnvChannels == {"env/env_obs", "env/reward", "env/done", "env/truncated",
                "env/cumulated_reward"}

\* number of agents of the running call's agent list
NAgents == Len(AgentsOf(run.agent, algo))

IsDriver(name) == name \in {"train_env", "eval_env"}

\* C3: a composite agent runs its agents in list order, each once per time
\* step, and each sees what its predecessors wrote at that step: the driver
\* is called before the policy (and, in FQI, the critic before the selector)
\* at every t, the policy finds env/env_obs at t, the old policy's
\* predict_proba pass finds action at t, and no such read hits a missing entry.
C3_CompositeOrder ==
    /\ err \notin {"missing env/env_obs", "missing action", "missing q_values"}
    /\ \A i \in 1..Len(calls) :
          /\ calls[i].agent \in {"actor", "q_agent"} =>
                /\ i > 1
                /\ IsDriver(calls[i - 1].agent)
                /\ calls[i - 1].t = calls[i].t
          /\ calls[i].agent = "explorer" =>
                i > 1 /\ calls[i - 1].agent = "q_agent" /\ calls[i - 1].t = calls[i].t
          /\ IsDriver(calls[i].agent) =>
                \A j \in 1..(i - 1) : calls[j].t < calls[i].t
    /\ (pc = "running" /\ run.agent # "none") =>
          /\ CurAgent \in {"actor", "q_agent"} =>
                WHas(ws, "env/env_obs", t) /\ WGet(ws, "env/env_obs", t) = Obs(env)
          /\ CurAgent = "explorer" => WHas(ws, "q_values", t)
          /\ CurAgent = "old_policy" =>
                WHas(ws, "action", t) /\ WHas(ws, "action_logprobs", t)

\* the old policy has re-scored every step of a PPO rollout
C3_Witness ==
    /\ algo = "ppo" /\ run.agent = "old_train_agent" /\ pc = "returned"
    /\ err = "none"
    /\ Len(ws["logprob_predict"]) = NSteps
    /\ Len(calls) = NSteps

\* C4: a TemporalAgent call with start index t0 and n_steps calls the wrapped
\* agents once for each t = t0, t0 + 1, ..., t0 + n_steps - 1, in increasing
\* order and for no other t, every call with the option values of the run.
C4_TemporalAgentSteps ==
    (run.agent # "none" /\ run.n_steps # None) =>
        /\ \A i \in 1..Len(calls) :
              /\ calls[i].t = run.t0 + ((i - 1) \div NAgents)
              /\ calls[i].t < run.t0 + run.n_steps
              /\ calls[i].agent = AgentsOf(run.agent, algo)[((i - 1) % NAgents) + 1]
              /\ calls[i].opts = run.opts
        /\ pc = "returned" => Len(calls) = NAgents * run.n_steps

\* a continuation rollout (t0 = 1, n_steps = NSteps - 1) has returned
C4_Witness ==
    /\ pc = "returned" /\ run.agent = "train_agent" /\ epoch = 1
    /\ run.t0 = 1
    /\ Len(calls) = NAgents * (NSteps - 1)
    /\ calls[Len(calls)].t = NSteps - 1

\* C5: across epochs the driver is neither reset nor re-stepped: its state
\* is that of a driver run without interruption on the same actions, the
\* latest step of the workspace is that driver's output, and the number of
\* driver steps is one per logical time step.
C5_SeamlessContinuation ==
    (err = "none" /\ g > 0) =>
        /\ env = ref
        /\ \A c \in EnvChannels :
              /\ Len(ws[c]) > 0
              /\ ws[c][Len(ws[c])] = DriverOutput(ref)[c]
        /\ g = IF pc = "loop_top"
               THEN (epoch - 1) * (NSteps - 1) + NSteps
               ELSE epoch * (NSteps - 1) + Len(ws["env/env_obs"])

\* an episode that began in epoch 0 is still running in epoch 1
C5_Witness ==
    /\ epoch = 1 /\ pc = "running" /\ run.agent = "train_agent"
    /\ err = "none"
    /\ \E s \in Slots : env[s].k = NSteps

\* the time steps tt such that the driver wrote tt and tt + 1
DriverPairs == 0..(Len(ws["env/env_obs"]) - 2)

EpisodeEnded(tt, s) ==
    WGet(ws, "env/done", tt)[s] \/ WGet(ws, "env/truncated", tt)[s]

\* C6: AutoReset driver: when the episode of a slot ends at tt, tt + 1 holds
\* the first observation of the next episode, a cumulated reward equal to
\* that step's reward, and done = truncated = false; a slot whose episode has
\* not ended goes on with the next step of the same episode.
C6_AutoReset ==
    \A tt \in DriverPairs : \A s \in Slots :
        LET o  == WGet(ws, "env/env_obs", tt)[s]
            o2 == WGet(ws, "env/env_obs", tt + 1)[s]
        IN  IF EpisodeEnded(tt, s)
            THEN /\ o2 = <<train_seed(0) + s, 0>>
                 /\ WGet(ws, "env/cumulated_reward", tt + 1)[s]
                        = WGet(ws, "env/reward", tt + 1)[s]
                 /\ ~EpisodeEnded(tt + 1, s)
            ELSE o2 = <<train_seed(0) + s, o[2] + 1>>

\* one slot's episode ended with a positive return while another slot's
\* episode went on
C6_Witness ==
    \E tt \in DriverPairs : \E s1, s2 \in Slots :
        /\ EpisodeEnded(tt, s1)
        /\ WGet(ws, "env/cumulated_reward", tt)[s1] > 1
        /\ ~EpisodeEnded(tt, s2)
        /\ WGet(ws, "env/cumulated_reward", tt + 1)[s2] > 1

RECURSIVE RewardSum(_, _, _)
\* sum of the rewards of slot s at times 0..tt
RewardSum(w, s, tt) ==
    IF tt < 0 THEN 0 ELSE WGet(w, "env/reward", tt)[s] + RewardSum(w, s, tt - 1)

\* C7: NoAutoReset driver: once done is true for a slot at tt, at every later
\* written step its reward is 0, its observation is the one of tt and done is
\* true, and its cumulated reward at the last written step is the sum of the
\* rewards of its episode.
C7_NoAutoReset ==
    \A tt \in 0..(Len(ws["env/env_obs"]) - 1) : \A s \in Slots :
        WGet(ws, "env/done", tt)[s] =>
            /\ \A t2 \in (tt + 1)..(Len(ws["env/env_obs"]) - 1) :
                  /\ WGet(ws, "env/reward", t2)[s] = 0
                  /\ WGet(ws, "env/env_obs", t2)[s] = WGet(ws, "env/env_obs", tt)[s]
                  /\ WGet(ws, "env/done", t2)[s]
            /\ WGet(ws, "env/cumulated_reward", Len(ws["env/env_obs"]) - 1)[s]
                  = RewardSum(ws, s, tt)

\* a slot was done two steps before the rollout ended, with a positive return
C7_Witness ==
    /\ pc = "eval_done"
    /\ t >= 2
    /\ \E s \in Slots :
          /\ WGet(ws, "env/done", t - 2)[s]
          /\ WGet(ws, "env/cumulated_reward", t)[s] > 1

AllDoneAt(tt) == AllTrue(WGet(ws, "env/done", tt))

\* C8: the evaluation rollout stops at the first time step at which env/done
\* is true for every slot, and it does stop.
C8_EvalStops ==
    /\ [](pc \in {"returned", "eval_done"} =>
            /\ t = Len(ws["env/done"]) - 1
            /\ AllDoneAt(t)
            /\ \A tt \in 0..(t - 1) : ~AllDoneAt(tt))
    /\ [](pc = "running" => \A tt \in 0..(Len(ws["env/done"]) - 2) : ~AllDoneAt(tt))
    /\ <>(pc = "eval_done")

\* the rollout stopped when the last slot was done, after another slot
C8_Witness ==
    /\ pc = "eval_done"
    /\ t >= 2
    /\ \E s \in Slots : WGet(ws, "env/done", t - 1)[s]
    /\ \E s \in Slots : WGet(ws, "env/truncated", t)[s]

\* C9: for every slot and every pair (tt, tt + 1) of the transition
\* workspace, must_bootstrap is (not done) or truncated with the flags of the
\* pair's second step tt + 1: false exactly when the episode terminated.
C9_MustBootstrap ==
    pc = "have_transitions" =>
        /\ DOMAIN must_bootstrap = (0..(NSteps - 2)) \X Slots
        /\ \A tr \in DOMAIN must_bootstrap :
              LET d  == WGet(ws, "env/done", tr[1] + 1)[tr[2]]
                  tc == WGet(ws, "env/truncated", tr[1] + 1)[tr[2]]
              IN  /\ must_bootstrap[tr] = (~d \/ tc)
                  /\ ~must_bootstrap[tr] <=> (d /\ ~tc)

\* a mask with a terminated pair, a truncated pair and a running pair
C9_Witness ==
    /\ pc = "have_transitions"
    /\ \E tr \in DOMAIN must_bootstrap : ~must_bootstrap[tr]
    /\ \E tr \in DOMAIN must_bootstrap :
          must_bootstrap[tr] /\ WGet(ws, "env/truncated", tr[1] + 1)[tr[2]]
    /\ \E tr \in DOMAIN must_bootstrap :
          must_bootstrap[tr] /\ ~WGet(ws, "env/done", tr[1] + 1)[tr[2]]

\* the scenario: first rollout, slot 0 done and not truncated at step 1,
\* slot 1 not done at steps 0, 1 and 2
Scenario ==
    /\ pc = "have_transitions" /\ epoch = 0
    /\ WGet(ws, "env/done", 1)[0] /\ ~WGet(ws, "env/truncated", 1)[0]
    /\ WGet(ws, "env/reward", 1)[0] = 5
    /\ \A tt \in 0..2 : ~WGet(ws, "env/done", tt)[1]

\* C10 as stated: in the scenario the mask of slot 0 over the pairs (0, 1)
\* and (1, 2) is [True, False] and the mask of slot 1 is [True, True].
C10_AsStated ==
    Scenario =>
        /\ must_bootstrap[<<0, 0>>] = TRUE
        /\ must_bootstrap[<<1, 0>>] = FALSE
        /\ must_bootstrap[<<0, 1>>] = TRUE
        /\ must_bootstrap[<<1, 1>>] = TRUE

\* C10 amended: in the scenario the mask of slot 0 is False for the pair
\* (0, 1), whose second step is the terminal one, and True for the pair
\* (1, 2), whose second step opens the next episode; slot 1 is [True, True].
C10_ScenarioMask ==
    Scenario =>
        /\ must_bootstrap[<<0, 0>>] = FALSE
        /\ <<1, 0>> \in DOMAIN must_bootstrap => must_bootstrap[<<1, 0>>] = TRUE
        /\ must_bootstrap[<<0, 1>>] = TRUE
        /\ must_bootstrap[<<1, 1>>] = TRUE

C10_Witness ==
    /\ Scenario
    /\ algo = "a2c"
    /\ DOMAIN must_bootstrap = (0..1) \X Slots

\* ------------------------------------------------------------------ SpecWS
WSChannels == {"action", "env/reward"}

Idle ==
    /\ algo = "none" /\ actor_type = "none" /\ epoch = 0
    /\ t = 0 /\ idx = 0 /\ run = [agent |-> "none"] /\ calls = <<>>
    /\ env = <<>> /\ ref = <<>> /\ refAct = <<>> /\ g = 0
    /\ tw = <<>> /\ must_bootstrap = <<>> /\ version = 0
    /\ theta = Unevaluated /\ written = {}
    /\ hp = <<>> /\ adv = <<>> /\ ws1 = EmptyWorkspace /\ vf = <<>>

InitWS ==
    /\ Idle
    /\ pc = "ws"
    /\ ws = EmptyWorkspace
    /\ pre = EmptyWorkspace
    /\ lastOp = NoOp
    /\ err = "none"

UnchangedLoop ==
    UNCHANGED <<algo, actor_type, epoch, pc, t, idx, run, calls, env, ref,
                refAct, g, tw, must_bootstrap, version, theta, written, hp,
                adv, ws1, vf>>

\* workspace.set(c, tt, v)
WsSet(c, tt, v) ==
    /\ pc = "ws"
    /\ WCanSet(ws, c, tt)
    /\ tt < MaxT
    /\ ws' = WSet(ws, c, tt, v)
    /\ pre' = ws
    /\ lastOp' = [op |-> "set", c |-> c, t |-> tt, v |-> v]
    /\ err' = "none"
    /\ UnchangedLoop

\* workspace.set(c, tt, v) with tt beyond the channel's length: refused
WsSetGap(c, tt, v) ==
    /\ pc = "ws"
    /\ ~WCanSet(ws, c, tt)
    /\ tt < MaxT
    /\ ws' = ws
    /\ pre' = ws
    /\ lastOp' = [op |-> "set_refused", c |-> c, t |-> tt, v |-> v]
    /\ err' = "gap"
    /\ UnchangedLoop

\* workspace.copy_n_last_steps(n)
WsCopy(n) ==
    /\ pc = "ws"
    /\ n >= 1 /\ n <= TimeSize(ws)
    /\ ws' = WCopyNLast(ws, n)
    /\ pre' = ws
    /\ lastOp' = [op |-> "copy", n |-> n, T |-> TimeSize(ws)]
    /\ err' = "none"
    /\ UnchangedLoop

NextWS ==
    \/ \E c \in WSChannels, tt \in 0..(MaxT - 1), v \in WSValues : WsSet(c, tt, v)
    \/ \E c \in WSChannels, tt \in 0..(MaxT - 1), v \in WSValues : WsSetGap(c, tt, v)
    \/ \E n \in 1..MaxT : WsCopy(n)

SpecWS == InitWS /\ [][NextWS]_vars

\* C1: after set(c, t, v), get(c, t) returns v, and every other written
\* (channel, time) pair returns what it returned before the set.
C1_GetReturnsLastSet ==
    lastOp.op = "set" =>
        /\ WHas(ws, lastOp.c, lastOp.t)
        /\ WGet(ws, lastOp.c, lastOp.t) = lastOp.v
        /\ \A c \in Channels : \A tt \in 0..(MaxT - 1) :
              (<<c, tt>> # <<lastOp.c, lastOp.t>>) =>
                  /\ WHas(ws, c, tt) = WHas(pre, c, tt)
                  /\ WHas(pre, c, tt) => WGet(ws, c, tt) = WGet(pre, c, tt)

\* a set that overwrote a written entry with a different value while the
\* other channel holds entries too
C1_Witness ==
    /\ lastOp.op = "set"
    /\ WHas(pre, lastOp.c, lastOp.t)
    /\ WGet(pre, lastOp.c, lastOp.t) # lastOp.v
    /\ \E c \in WSChannels : c # lastOp.c /\ Len(ws[c]) >= 2
    /\ Len(ws[lastOp.c]) >= 2

\* C2: after copy_n_last_steps(n) on a Workspace of time size T the time
\* size is n and time i holds what time T - n + i held, for every channel.
C2_CopyNLastSteps ==
    lastOp.op = "copy" =>
        /\ TimeSize(ws) = lastOp.n
        /\ \A c \in Channels : \A i \in 0..(lastOp.n - 1) :
              /\ WHas(ws, c, i) = WHas(pre, c, lastOp.T - lastOp.n + i)
              /\ WHas(ws, c, i) => WGet(ws, c, i) = WGet(pre, c, lastOp.T - lastOp.n + i)

\* a copy of fewer steps than the Workspace held, whose first and last
\* steps differ
C2_Witness ==
    /\ lastOp.op = "copy"
    /\ lastOp.n < lastOp.T
    /\ \E c \in WSChannels :
          /\ Len(pre[c]) = lastOp.T
          /\ pre[c][1] # pre[c][lastOp.T]
          /\ Len(ws[c]) = lastOp.n

\* ----------------------------------------------------------------- SpecGAE
GaeValues == {0, 1}      \* value estimates and rewards
Gammas == {2, 3}         \* discount factors, in quarters
Lambdas == {0, 2, 4}     \* trace-decay factors, in quarters

InitGAE ==
    /\ algo = "none" /\ actor_type = "none" /\ epoch = 0
    /\ t = 0 /\ idx = 0 /\ run = [agent |-> "none"] /\ calls = <<>>
    /\ env = <<>> /\ ref = <<>> /\ refAct = <<>> /\ g = 0 /\ version = 0
    /\ theta = Unevaluated /\ written = {} /\ ws1 = EmptyWorkspace /\ vf = <<>>
    /\ ws = EmptyWorkspace /\ pre = EmptyWorkspace /\ lastOp = NoOp
    /\ err = "none"
    /\ pc = "gae"
    /\ \E v \in [1..(GaeT + 1) -> GaeValues], r \in [1..GaeT -> GaeValues] :
          tw = [v_value |-> v, reward |-> r]
    /\ must_bootstrap \in [1..GaeT -> BOOLEAN]
    /\ \E gamma \in Gammas, lam \in Lambdas :
          hp = [discount_factor |-> gamma, gae |-> lam]
    /\ adv = <<>>

\* critic_loss, advantages = compute_advantages_loss(cfg, reward,
\* must_bootstrap, v_value)
ComputeAdvantages ==
    /\ pc = "gae"
    /\ adv' = compute_advantages_loss(hp, tw.reward, must_bootstrap,
                                       tw.v_value).advantages
    /\ pc' = "gae_done"
    /\ UNCHANGED <<algo, actor_type, epoch, t, idx, run, calls, ws, env, ref,
                   refAct, g, tw, must_bootstrap, version, err, pre, lastOp,
                   theta, written, hp, ws1, vf>>

NextGAE == ComputeAdvantages

SpecGAE == InitGAE /\ [][NextGAE]_vars

\* an advantage is a number of Unit-ths
Unit == Pow(Quarter, 2 * GaeT - 1)

\* C11: with trace-decay lambda = 0 the advantage at every t in 0..T-1 is
\* the one-step residual r_t + gamma V_{t+1} must_bootstrap_t - V_t.
C11_LambdaZeroIsTD ==
    (pc = "gae_done" /\ hp.gae = 0) =>
        /\ Len(adv) = GaeT
        /\ \A tt \in 0..(GaeT - 1) :
              Quarter * adv[tt + 1] =
                  Unit * ( Quarter * tw.reward[tt + 1]
                         + hp.discount_factor * tw.v_value[tt + 2]
                             * (IF must_bootstrap[tt + 1] THEN 1 ELSE 0)
                         - Quarter * tw.v_value[tt + 1] )

\* lambda = 0 on a series with a step that bootstraps from a non-zero value
\* and a step that does not
C11_Witness ==
    /\ pc = "gae_done" /\ hp.gae = 0
    /\ \E tt \in 1..GaeT : must_bootstrap[tt] /\ tw.v_value[tt + 1] = 1
    /\ \E tt \in 1..GaeT : ~must_bootstrap[tt] /\ tw.v_value[tt + 1] = 1
    /\ \E tt \in 1..GaeT : adv[tt] # 0

\* the series that agree with (v, r, mb) at every time <= tt
LaterChanged(v, r, mb, tt) ==
    {[v_value |-> [i \in 1..Len(v) |-> IF i <= tt + 1 THEN v[i] ELSE x[i]],
      reward |-> [i \in 1..Len(r) |-> IF i <= tt + 1 THEN r[i] ELSE y[i]],
      mb |-> [i \in 1..Len(mb) |-> IF i <= tt + 1 THEN mb[i] ELSE z[i]]] :
        x \in [(tt + 2)..Len(v) -> GaeValues],
        y \in [(tt + 2)..Len(r) -> GaeValues],
        z \in [(tt + 2)..Len(mb) -> BOOLEAN]}

\* C12: where must_bootstrap_t is false, A_t is the same for every series
\* that agrees on the values, rewards and masks at times <= t, whatever the
\* values, rewards and masks at later times, for every lambda.
C12_CutOff ==
    pc = "gae_done" =>
        \A tt \in 0..(GaeT - 1) :
            ~must_bootstrap[tt + 1] =>
                \A o \in LaterChanged(tw.v_value, tw.reward, must_bootstrap, tt) :
                    compute_advantages_loss(hp, o.reward, o.mb, o.v_value)
                        .advantages[tt + 1] = adv[tt + 1]

\* lambda = 1 and a terminal step followed by a step with a non-zero
\* advantage and a non-zero value
C12_Witness ==
    /\ pc = "gae_done" /\ hp.gae = 4
    /\ \E tt \in 1..(GaeT - 1) :
          /\ ~must_bootstrap[tt]
          /\ tw.v_value[tt + 1] = 1
          /\ adv[tt + 1] # 0

\* ----------------------------------------------------------------- SpecDet
\* The program is started twice with the same base seed, and each start
\* runs one greedy rollout of DetSteps steps on a fresh Workspace; epoch
\* counts the starts.

\* (mutant) the network is initialized from an unseeded generator
InitialNetwork_Unseeded(th) == Unevaluated
\* torch.manual_seed(cfg.algorithm.seed) before the network is built: a start
\* builds the network the start before built
InitialNetwork(th) == th

DetArgs(name) ==
    [agent |-> name, t0 |-> 0, n_steps |-> DetSteps, stop |-> "none",
     opts |-> Options(FALSE, FALSE, FALSE, FALSE)]

InitDet ==
    /\ algo = "a2c"
    /\ actor_type \in ActorTypes
    /\ InitBase
    /\ pc = "det_start"

\* the first start's rollout, with the training or the evaluation agent
FirstRollout ==
    /\ pc = "det_start"
    /\ \E name \in {"train_agent", "eval_agent"} : Begin(DetArgs(name))
    /\ UNCHANGED <<algo, actor_type, epoch, ws, tw, must_bootstrap, version, err>>
    /\ UnchangedEnv /\ UnchangedWS

\* the second start: a fresh Workspace, the driver seeded anew, the network
\* built anew, and the same rollout
SecondRollout ==
    /\ pc = "returned"
    /\ epoch = 0
    /\ epoch' = 1
    /\ ws1' = ws
    /\ ws' = EmptyWorkspace
    /\ env' = SeedSlots(train_seed(1))
    /\ ref' = SeedSlots(train_seed(1))
    /\ refAct' = [s \in Slots |-> 0]
    /\ g' = 0
    /\ theta' = InitialNetwork(theta)
    /\ Begin(DetArgs(run.agent))
    /\ UNCHANGED <<algo, actor_type, tw, must_bootstrap, version, err, pre,
                   lastOp, hp, adv, vf>>

NextDet ==
    \/ FirstRollout
    \/ EnvForward
    \/ ActorForward
    \/ SecondRollout

SpecDet == InitDet /\ [][NextDet]_vars

\* C13: two greedy rollouts of n_steps steps from the same base seed and
\* the same (empty) Workspace write the same action and the same observation
\* at every time step and every slot.
C13_Determinism ==
    epoch = 1 =>
        /\ \A c \in {"action", "env/env_obs"} :
              \A tt \in 0..(Len(ws[c]) - 1) :
                  WHas(ws1, c, tt) /\ WGet(ws, c, tt) = WGet(ws1, c, tt)
        /\ pc = "returned" =>
              \A c \in {"action", "env/env_obs"} :
                  Len(ws[c]) = DetSteps /\ Len(ws1[c]) = DetSteps

\* the second rollout has returned; the slots took different actions, an
\* episode ended and another began, and both actions were selected
C13_Witness ==
    /\ epoch = 1 /\ pc = "returned" /\ err = "none"
    /\ \E tt \in 0..(DetSteps - 2) : \E s \in Slots :
          WGet(ws, "env/done", tt)[s] /\ ~WGet(ws, "env/done", tt + 1)[s]
    /\ \E tt \in 0..(DetSteps - 1) :
          WGet(ws, "action", tt)[0] # WGet(ws, "action", tt)[1]
    /\ \E tt \in 0..(DetSteps - 1) :
          WGet(ws, "action", tt)[0] # WGet(ws, "action", 0)[0]

\* ------------------------------------------------ one forward call of a policy
\* A single forward call at time 0 of a policy agent, on a Workspace that
\* holds the observation and, possibly, an action stored by an earlier call.
PolicyTypes == ActorTypes \cup {"ProbAgent"}

PolicyForwardAt(type, ver, w, tt, opts, d) ==
    IF type = "ProbAgent" THEN ProbAgentForwardAt(ver, w, tt, d)
    ELSE ActorForwardAt(type, ver, w, tt, opts, d)

NoStored == [s \in Slots |-> None]

\* the Workspace the call finds: the observation at time 0 and, unless
\* stored is NoStored, the action and its log-probability at time 0
Prepared(obs, stored) ==
    LET w == WSet(EmptyWorkspace, "env/env_obs", 0, obs)
    IN  IF stored = NoStored THEN w
        ELSE WSet(WSet(w, "action", 0, stored), "action_logprobs", 0,
                  LogProb(0, obs, stored, SomeProbs))

InitActor ==
    /\ algo = "a2c"
    /\ actor_type \in PolicyTypes
    /\ InitBase
    /\ pc = "actor_start"

\* the caller's choice of options, the Workspace, and the network's output
\* (a probability per slot, or NaN)
PrepareCall ==
    /\ pc = "actor_start"
    /\ pc' = "actor_ready"
    /\ \E st, pp, ce \in BOOLEAN :
          run' = [agent |-> "action_agent", t0 |-> 0, n_steps |-> 1,
                  stop |-> "none", opts |-> Options(st, pp, ce, FALSE)]
    /\ \E stored \in [Slots -> Actions] \cup {NoStored} :
          ws' = Prepared(Obs(env), stored)
    /\ \E p \in [Slots -> ProbValues \cup {NaN}] :
          theta' = Learn(Unevaluated, Obs(env), p)
    /\ UNCHANGED <<algo, actor_type, epoch, t, idx, calls, env, ref, refAct, g,
                   tw, must_bootstrap, version, err, pre, lastOp, written,
                   hp, adv, ws1, vf>>

\* the forward call: a is what a sampler returns, checks whether torch
\* validates the parameters of the distributions
ForwardCall ==
    /\ pc = "actor_ready"
    /\ pc' = "actor_done"
    /\ \E a \in [Slots -> Actions], checks \in BOOLEAN :
          LET obs == WGet(ws, "env/env_obs", 0)
              d   == [a |-> a, p |-> [s \in Slots |-> theta[obs[s]]],
                      checks |-> checks]
              res == PolicyForwardAt(actor_type, version, ws, 0, run.opts, d)
          IN  /\ ws' = res.ws
              /\ err' = res.err
              /\ pre' = ws
              /\ lastOp' = [op |-> "forward", a |-> a, checks |-> checks,
                            wrote |-> res.wrote]
              /\ written' = {<<c, 0, run.agent>> : c \in res.wrote}
    /\ UNCHANGED <<algo, actor_type, epoch, t, idx, run, calls, env, ref,
                   refAct, g, tw, must_bootstrap, version, theta, hp, adv, ws1, vf>>

NextActor == PrepareCall \/ ForwardCall

SpecActor == InitActor /\ [][NextActor]_vars

\* the probabilities the network computed in the call
CallProbs == [s \in Slots |-> theta[WGet(pre, "env/env_obs", 0)[s]]]

\* C14: with predict_proba true an actor's forward call leaves action and
\* action_logprobs as they were and writes only logprob_predict (and the
\* entropy, when asked); with predict_proba false it writes action and
\* action_logprobs and never logprob_predict.
C14_PredictProbaFrame ==
    (pc = "actor_done" /\ actor_type \in ActorTypes /\ err = "none") =>
        IF run.opts.predict_proba
        THEN /\ ws["action"] = pre["action"]
             /\ ws["action_logprobs"] = pre["action_logprobs"]
             /\ "logprob_predict" \in lastOp.wrote
             /\ lastOp.wrote \subseteq {"logprob_predict", "entropy"}
        ELSE /\ {"action", "action_logprobs"} \subseteq lastOp.wrote
             /\ "logprob_predict" \notin lastOp.wrote

\* a BernoulliActor called with predict_proba true has replaced the stored
\* action by a new sample and written no logprob_predict
C14_Witness ==
    /\ pc = "actor_done" /\ err = "none"
    /\ actor_type = "BernoulliActor"
    /\ run.opts.predict_proba /\ run.opts.stochastic
    /\ WHas(pre, "action", 0)
    /\ WGet(ws, "action", 0) # WGet(pre, "action", 0)
    /\ "logprob_predict" \notin lastOp.wrote

\* C17: with stochastic false an actor writes the most probable action:
\* 1 exactly when P(action = 1) > 0.5 for BernoulliActor, the index of the
\* largest probability for DiscreteActor.
C17_GreedyIsMode ==
    (/\ pc = "actor_done" /\ actor_type \in ActorTypes /\ err = "none"
     /\ ~run.opts.stochastic /\ "action" \in lastOp.wrote
     /\ ~IsNaN(CallProbs)) =>
        \A s \in Slots :
            CallProbs[s] # 2 => WGet(ws, "action", 0)[s] = Mode(CallProbs[s])

\* a BernoulliActor whose network gave action 1 the probability 3/4 has
\* written action 0 in a greedy call
C17_Witness ==
    /\ pc = "actor_done" /\ err = "none"
    /\ actor_type = "BernoulliActor"
    /\ ~run.opts.stochastic
    /\ \E s \in Slots : CallProbs[s] = 3 /\ WGet(ws, "action", 0)[s] = 0

\* C18: when the probabilities contain a NaN, ProbAgent and DiscreteActor
\* alike raise at once and write nothing derived from them.
C18_NaNRaises ==
    (/\ pc = "actor_done" /\ actor_type \in {"ProbAgent", "DiscreteActor"}
     /\ IsNaN(CallProbs)) =>
        err # "none" /\ lastOp.wrote = {} /\ ws = pre

\* a DiscreteActor called as the evaluation calls it (greedy, no entropy)
\* with a NaN among its probabilities has written an action and its
\* log-probability without an error, even where torch validates
C18_Witness ==
    /\ pc = "actor_done" /\ err = "none"
    /\ actor_type = "DiscreteActor"
    /\ run.opts = Options(FALSE, FALSE, FALSE, FALSE)
    /\ IsNaN(CallProbs) /\ lastOp.checks
    /\ {"action", "action_logprobs"} \subseteq lastOp.wrote
    /\ \E s \in Slots : WGet(ws, "action_logprobs", 0)[s] = NaNValue

\* ------------------------------------------- entropy and channel alignment
\* the losses of the iteration are about to be computed
LossesNext ==
    \/ pc = "have_transitions" /\ algo # "ppo"
    \/ pc = "returned" /\ run.agent = "old_critic_agent"

\* the time steps the rollout call of the iteration wrote
RolloutSteps == (IF epoch > 0 THEN 1 ELSE 0)..(NSteps - 1)

\* C15: from the start of an iteration up to get_transitions no two agents
\* write the same (channel, t); in particular the entropy the loss reads is
\* the one the current policy wrote.
C15_SingleWriter ==
    /\ \A w1, w2 \in written :
          (/\ w1[3] # "old_critic" /\ w2[3] # "old_critic"
           /\ w1[1] = w2[1] /\ w1[2] = w2[2]) => w1[3] = w2[3]
    /\ (LossesNext /\ algo # "fqi") =>
          \A tt \in RolloutSteps :
              WHas(ws, "entropy", tt) =>
                  WGet(ws, "entropy", tt) =
                      Entropy(version, WGet(ws, "env/env_obs", tt), SomeProbs)

\* PPO after an optimizer step: the policy and the old policy both wrote the
\* entropy at a time step, and the entropy the loss is about to read there is
\* the old policy's
C15_Witness ==
    /\ algo = "ppo" /\ epoch >= 1 /\ LossesNext /\ err = "none"
    /\ \E tt \in RolloutSteps :
          /\ <<"entropy", tt, "actor">> \in written
          /\ <<"entropy", tt, "old_policy">> \in written
          /\ WGet(ws, "entropy", tt) =
                 Entropy(OldVersion(version), WGet(ws, "env/env_obs", tt), SomeProbs)
          /\ WGet(ws, "entropy", tt) #
                 Entropy(version, WGet(ws, "env/env_obs", tt), SomeProbs)

\* C16: in A2C every forward call of the actor with compute_entropy true
\* writes the entropy at its time step, so that after the rollout the read
\* of the entropy channel finds a value at every time step and never fails.
C16_EntropyWritten ==
    algo = "a2c" =>
        /\ \A i \in 1..Len(calls) :
              (calls[i].agent = "actor" /\ calls[i].opts.compute_entropy
                 /\ (i < Len(calls) \/ err = "none"))
                  => <<"entropy", calls[i].t, "actor">> \in written
        /\ pc = "have_transitions" => Len(ws["entropy"]) = NSteps
        /\ err # "missing entropy"

\* A2C with a SquashedGaussianActor: the rollout and the critic succeeded,
\* no entropy was written, and the read of the entropy channel failed
C16_Witness ==
    /\ algo = "a2c" /\ actor_type = "SquashedGaussianActor"
    /\ pc = "aborted" /\ err = "missing entropy"
    /\ Len(ws["entropy"]) = 0
    /\ Len(ws["action"]) = NSteps /\ Len(ws["v_value"]) = NSteps

AlignedChannels ==
    {"env/done", "env/truncated", "env/reward", "action", "action_logprobs",
     "v_value"}

\* C20: in an A2C iteration, after the rollout and the critic call, each of
\* env/done, env/truncated, env/reward, action, action_logprobs and v_value
\* has exactly n_steps time steps, and get_transitions yields n_steps - 1
\* consecutive pairs for every slot.
C20_AlignedChannels ==
    (algo = "a2c" /\ err = "none") =>
        /\ (pc = "returned" /\ run.agent = "critic_agent") =>
              \A c \in AlignedChannels : Len(ws[c]) = NSteps
        /\ pc = "have_transitions" =>
              \A c \in AlignedChannels :
                  /\ Len(ws[c]) = NSteps
                  /\ DOMAIN tw[c] = (0..(NSteps - 2)) \X Slots
                  /\ \A tr \in DOMAIN tw[c] :
                        tw[c][tr] = <<WGet(ws, c, tr[1])[tr[2]],
                                      WGet(ws, c, tr[1] + 1)[tr[2]]>>

\* a continuation iteration of A2C has its transitions, and an episode ended
\* inside the window
C20_Witness ==
    /\ algo = "a2c" /\ epoch >= 1 /\ pc = "have_transitions" /\ err = "none"
    /\ \E tr \in DOMAIN tw["env/done"] : tw["env/done"][tr][2]
    /\ \A s \in Slots :
          Cardinality({tr \in DOMAIN tw["action"] : tr[2] = s}) = NSteps - 1

\* --------------------------------------------------- PPO value clipping
\* the parameter version of the critic in the iteration that built tw
BuiltBy == IF pc = "loop_top" THEN version - 1 ELSE version

\* C21: in a PPO iteration the transition workspace is built before the old
\* critic writes v_value into the training workspace and is not affected by
\* that write, so old_v_value is the same data as v_value, both the current
\* critic's values, and the clipping leaves v_value as it was for every
\* clip_range_vf > 0.
C21_ClippingIsIdentity ==
    algo = "ppo" =>
        /\ \A w \in written :
              w[3] = "old_critic" =>
                  /\ tw # <<>>
                  /\ \A tr \in DOMAIN tw["v_value"] :
                        /\ tw["v_value"][tr][1][2] = BuiltBy
                        /\ tw["v_value"][tr][2][2] = BuiltBy
        /\ vf # <<>> =>
              /\ vf.old_v_value = vf.v_value
              /\ vf.v_value = Values(tw)
              /\ \A c \in ClipRanges : c > 0 => vf.clipped[c] = vf.v_value

\* the second PPO iteration has computed its losses: the old critic, whose
\* parameters are older than the critic's, has overwritten v_value in the
\* training workspace with values that differ from those of the transition
\* workspace by more than every clip range
C21_Witness ==
    /\ algo = "ppo" /\ epoch >= 2 /\ pc = "loop_top" /\ err = "none"
    /\ vf # <<>>
    /\ \A tt \in 0..(NSteps - 1) : <<"v_value", tt, "old_critic">> \in written
    /\ \E tr \in DOMAIN vf.v_value :
          /\ WGet(ws, "v_value", tr[1])[tr[2]][2] = OldVersion(BuiltBy)
          /\ vf.v_value[tr][1] - Num(WGet(ws, "v_value", tr[1])[tr[2]])
                 > Max(ClipRanges)

====
